---- MODULE Spec2Model ----
(***************************************************************************)
(* Model of the email threading engine of ggalvin-sc/email_threads:        *)
(*   - EmailThreadProcessor  (src/unnamed/part_005): loadEmailsFromFile,   *)
(*     groupByThreads, buildThreadTree, generateThreadStats;               *)
(*   - AdvancedSolrProcessor (src/unnamed/part_006): getAllThreadableEmails*)
(*     and the three thread builders.                                      *)
(* JavaScript `undefined` is the value Undefined; object graphs (tree      *)
(* nodes that reference their children) are kept as an arena: a function   *)
(* from the Map key of a node to the node, children being lists of keys.   *)
(***************************************************************************)
EXTENDS Integers, Sequences, FiniteSets, TLC

VARIABLES
    file,       \* EmailThreadProcessor: the rows of the CSV file being read
    emails,     \* EmailThreadProcessor.emails
    threads,    \* EmailThreadProcessor.threads (Map threadId -> emails)
    ret,        \* the value returned by the last call on the processor
    docs,             \* AdvancedSolrProcessor: the documents Solr answers with
    approach,         \* which thread builder is run: its name and proximityHours
    semails,          \* AdvancedSolrProcessor.emails
    messageIdToEmail, \* AdvancedSolrProcessor.messageIdToEmail
    sthreads,         \* the builder's local Map `threads`, in insertion order
    subjectToThread,  \* buildHybridThreads' local Map
    processedEmails,  \* the builder's local Set
    idx,              \* position of the builder's for-loop in this.emails
    current,          \* the while-loop's `current`, <<>> outside the loop
    spc,              \* where the builder stands: idle, loop, walk, or done
                      \* (it has just returned sthreads for this.emails)
    subject,          \* normalizeSubject: the subject line given, as tokens
    normalized,       \* the results of normalizeSubject applied once, then again
    calls,            \* the loadEmailsFromFile calls made on the processor: the
                      \* file each reads, its local array `emails`, its promise
    written,          \* parseColumnHistory: the metadata a writer put in the field
    columnHistory,    \* the column_history field, as tokens
    threadInfo,       \* what parseColumnHistory returned for it
    later,            \* the documents Solr answers with from some later moment on
    app,              \* EmailThreadApp: its fields and what the page shows
    loads,            \* EmailThreadApp: the loads started and where each stands
    clicked,          \* the view toggle button clicked last, "none" before any click
    solr,             \* SolrEmailProcessor: emails, messageIdToEmail, threads
    csv               \* solr_email_data.csv: the rows written, <<>> before

procVars == <<file, emails, threads, ret>>
solrVars == <<docs, approach, semails, messageIdToEmail, sthreads, subjectToThread,
              processedEmails, idx, current, spc>>
textVars == <<subject, normalized>>
loadVars == <<calls>>
histVars == <<written, columnHistory, threadInfo>>
appVars == <<app, loads, clicked>>
pipeVars == <<solr, csv>>
moreVars == <<loadVars, histVars, later, appVars, pipeVars>>
vars == <<procVars, solrVars, textVars, moreVars>>

\* ---------------------------------------------------------------- bounds
MaxEmails == 3          \* rows of an arbitrary input file
MaxChain == 5           \* length of the longest linear reply chain tried

Undefined == "undefined"
MsgIds == {"m1", "m2"}
ThreadIds == {"t1", "t2"}
Dates == {1, 2}

Truthy(v) == v # Undefined /\ v # ""

Max(S) == CHOOSE x \in S : \A y \in S : y <= x
Min(S) == CHOOSE x \in S : \A y \in S : x <= y

SeqRange(s) == {s[i] : i \in DOMAIN s}

\* ------------------------------------------------------------ input files
\* A parsed CSV row: what loadEmailsFromFile keeps of it for threading
\* (id is BegBates; the others come from parseColumnHistory and DateSent).
\* RowRefs is a row whose column_history has a REFS: part listing `refs`.
RowRefs(id, mid, irt, tid, d, refs) ==
    [id |-> id, messageId |-> mid, inReplyTo |-> irt, threadId |-> tid, dateSent |-> d,
     references |-> refs]

\* A row with REFS:<> (no references).
Row(id, mid, irt, tid, d) == RowRefs(id, mid, irt, tid, d, <<>>)

RowFields ==
    [messageId : MsgIds \cup {Undefined},
     inReplyTo : MsgIds \cup {Undefined},
     threadId  : ThreadIds \cup {Undefined},
     dateSent  : Dates]

\* A file of n arbitrary rows; BegBates is the row number.
ArbitraryFile(n, f) ==
    [i \in 1..n |-> Row(i, f[i].messageId, f[i].inReplyTo, f[i].threadId, f[i].dateSent)]

\* Files are taken up to renaming of thread ids and of message ids: the first
\* thread id of a file is "t1" and the first message id it mentions is "m1".
FirstIs(vals, v) ==
    IF \A i \in DOMAIN vals : vals[i] = Undefined THEN TRUE
    ELSE vals[Min({i \in DOMAIN vals : vals[i] # Undefined})] = v

Canonical(n, f) ==
    /\ FirstIs([i \in 1..n |-> f[i].threadId], "t1")
    /\ FirstIs([i \in 1..(2 * n) |->
                    IF i <= n THEN f[i].messageId ELSE f[i - n].inReplyTo], "m1")

\* The 13-message test thread of the README (A..M are messages 1..13, in the
\* order they were sent): parent of each message, 0 for the original email.
FixtureParent == <<0, 1, 1, 2, 2, 3, 4, 4, 5, 6, 3, 1, 12>>
FixtureName == <<"A", "B", "C", "D", "E", "F", "G", "H", "I", "J", "K", "L", "M">>
Fixture13 ==
    [i \in 1..13 |->
        Row(i, FixtureName[i],
            IF FixtureParent[i] = 0 THEN Undefined ELSE FixtureName[FixtureParent[i]],
            "thread-001", i)]

\* A linear reply chain of n emails in one thread: each replies to the previous.
ChainName == <<"c1", "c2", "c3", "c4", "c5", "c6", "c7", "c8">>
Chain(n) ==
    [i \in 1..n |->
        Row(i, ChainName[i], IF i = 1 THEN Undefined ELSE ChainName[i - 1], "chain", i)]
ChainFiles == {Chain(n) : n \in 1..MaxChain}

\* The same chain with the rows of the file in reverse order and equal dates.
ChainReversed(n) ==
    [i \in 1..n |->
        Row(n + 1 - i, ChainName[n + 1 - i],
            IF i = n THEN Undefined ELSE ChainName[n - i], "chain", 1)]
ChainReversedFiles == {ChainReversed(n) : n \in 1..MaxChain}

\* The fixture with the rows of the file in reverse order.
Fixture13Reversed == [i \in 1..13 |-> Fixture13[14 - i]]

FixtureFiles == {Fixture13, Fixture13Reversed} \cup ChainFiles \cup ChainReversedFiles

\* A reply chain followed by a late email whose parent is not in the file
\* (IN-REPLY-TO names "lost") and whose REFS list its ancestors, oldest
\* first: some leading part of the chain, then possibly the lost parent.
MaxRefs == 2            \* length of the chain the late email refers to
RefsLists(n) ==
    {SubSeq(ChainName, 1, j) \o tl : j \in 0..n, tl \in {<<>>, <<"lost">>}}
ReferencesFiles ==
    {Append(Chain(n), RowRefs(n + 1, "late", "lost", "chain", n + 1, refs)) :
        n \in 1..MaxRefs, refs \in RefsLists(MaxRefs)}

\* ------------------------------------------------- EmailThreadProcessor
\* Array.prototype.sort((a, b) => a.dateSent - b.dateSent): a stable sort.
RECURSIVE InsertByDate(_, _)
InsertByDate(sorted, e) ==
    IF sorted = <<>> THEN <<e>>
    ELSE IF sorted[Len(sorted)].dateSent <= e.dateSent THEN Append(sorted, e)
    ELSE Append(InsertByDate(SubSeq(sorted, 1, Len(sorted) - 1), e), sorted[Len(sorted)])

RECURSIVE SortByDate(_)
SortByDate(s) ==
    IF s = <<>> THEN <<>>
    ELSE InsertByDate(SortByDate(SubSeq(s, 1, Len(s) - 1)), s[Len(s)])

\* groupByThreads: the Map built from this.emails, each thread sorted by date.
\* An email without a thread id is skipped (the early return in forEach).
Grouped(es) ==
    LET tids == {es[i].threadId : i \in {j \in DOMAIN es : Truthy(es[j].threadId)}}
    IN  [t \in tids |-> SortByDate(SelectSeq(es, LAMBDA e : e.threadId = t))]

\* new Date(text) of a text that is no date is an Invalid Date, whose time is
\* NaN.  A comparator over NaN is not consistent, and the order sort() leaves
\* the array in is then implementation-defined: any order of the elements.
InvalidDate == 0 - 1
ValidDates(s) == \A i \in DOMAIN s : s[i].dateSent # InvalidDate
Orders(s) ==
    {[i \in DOMAIN s |-> s[p[i]]] :
        p \in {q \in [DOMAIN s -> DOMAIN s] : \A i, j \in DOMAIN s : i # j => q[i] # q[j]}}
SortOutcomes(s) == IF ValidDates(s) THEN {SortByDate(s)} ELSE Orders(s)

\* The Maps groupByThreads can build from this.emails.
GroupedOutcomes(es) ==
    LET tids == {es[i].threadId : i \in {j \in DOMAIN es : Truthy(es[j].threadId)}}
        members(t) == SelectSeq(es, LAMBDA e : e.threadId = t)
    IN  IF \A t \in tids : ValidDates(members(t)) THEN {Grouped(es)}
        ELSE {g \in [tids -> UNION {SortOutcomes(members(t)) : t \in tids}] :
                \A t \in tids : g[t] \in SortOutcomes(members(t))}

\* buildThreadTree, first loop: emailMap.set(email.messageId, {...email, children: []});
\* a later email with the same messageId replaces the earlier node.
EmailMapKeys(es) == {es[i].messageId : i \in DOMAIN es}
EmailMapNode(es, k) == es[Max({i \in DOMAIN es : es[i].messageId = k})]

\* buildThreadTree, second loop: each email's node (looked up by messageId) is
\* pushed to its parent's children or to roots.
\* Attach with the `else` lost: a reply is pushed to roots as well.
RECURSIVE AttachNoElse(_, _, _, _)
AttachNoElse(es, i, roots, children) ==
    IF i > Len(es) THEN [roots |-> roots, children |-> children]
    ELSE LET e == es[i] IN
         IF Truthy(e.inReplyTo) /\ e.inReplyTo \in {es[j].messageId : j \in DOMAIN es}
         THEN AttachNoElse(es, i + 1, Append(roots, e.messageId),
                           [children EXCEPT ![e.inReplyTo] = Append(@, e.messageId)])
         ELSE AttachNoElse(es, i + 1, Append(roots, e.messageId), children)

RECURSIVE Attach(_, _, _, _)
Attach(es, i, roots, children) ==
    IF i > Len(es) THEN [roots |-> roots, children |-> children]
    ELSE LET e == es[i] IN
         IF Truthy(e.inReplyTo) /\ e.inReplyTo \in EmailMapKeys(es)
         THEN Attach(es, i + 1, roots,
                     [children EXCEPT ![e.inReplyTo] = Append(@, e.messageId)])
         ELSE Attach(es, i + 1, Append(roots, e.messageId), children)

Null == [null |-> TRUE]

BuildThreadTree(ths, threadId) ==
    IF threadId \notin DOMAIN ths THEN Null
    ELSE LET es == ths[threadId]
             a  == Attach(es, 1, <<>>, [k \in EmailMapKeys(es) |-> <<>>])
         IN  [null        |-> FALSE,
              threadId    |-> threadId,
              roots       |-> a.roots,
              nodes       |-> [k \in EmailMapKeys(es) |->
                                 [email |-> EmailMapNode(es, k), children |-> a.children[k]]],
              totalEmails |-> Len(es),
              dateRange   |-> [start |-> es[1].dateSent, end |-> es[Len(es)].dateSent]]

\* A recursion that never returns (a node reachable from itself) ends in
\* RangeError: Maximum call stack size exceeded. Overflow marks that outcome;
\* `fuel` is the number of distinct nodes, so it runs out only on a cycle.
Overflow == 0 - 1

\* calculateMaxDepth recursing with currentDepth instead of currentDepth + 1.
RECURSIVE CalculateMaxDepthNoIncrement(_, _, _, _)
CalculateMaxDepthNoIncrement(nodes, roots, currentDepth, fuel) ==
    IF roots = <<>> THEN currentDepth
    ELSE IF fuel = 0 THEN 0 - 1
    ELSE LET ds == {CalculateMaxDepthNoIncrement(nodes, nodes[roots[i]].children,
                                                 currentDepth, fuel - 1) : i \in DOMAIN roots}
         IN  IF (0 - 1) \in ds THEN 0 - 1 ELSE Max(ds \cup {currentDepth})

\* calculateMaxDepth(roots, currentDepth = 0)
RECURSIVE CalculateMaxDepth(_, _, _, _)
CalculateMaxDepth(nodes, roots, currentDepth, fuel) ==
    IF roots = <<>> THEN currentDepth
    ELSE IF fuel = 0 THEN Overflow
    ELSE LET ds == {CalculateMaxDepth(nodes, nodes[roots[i]].children,
                                      currentDepth + 1, fuel - 1) : i \in DOMAIN roots}
         IN  IF Overflow \in ds THEN Overflow ELSE Max(ds \cup {currentDepth})

\* countBranches(roots): a node with more than one child adds children.length.
RECURSIVE SumSeq(_)
SumSeq(s) == IF s = <<>> THEN 0 ELSE s[1] + SumSeq(Tail(s))

\* countBranches adding children.length - 1 for a node with several children.
RECURSIVE CountBranchesBeyondFirst(_, _, _)
CountBranchesBeyondFirst(nodes, roots, fuel) ==
    IF roots = <<>> THEN 0
    ELSE IF fuel = 0 THEN Overflow
    ELSE LET per == [i \in DOMAIN roots |->
                        LET ch  == nodes[roots[i]].children
                            sub == CountBranchesBeyondFirst(nodes, ch, fuel - 1)
                        IN  IF sub = Overflow THEN Overflow
                            ELSE (IF Len(ch) > 1 THEN Len(ch) - 1 ELSE 0) + sub]
         IN  IF Overflow \in SeqRange(per) THEN Overflow ELSE SumSeq(per)

\* countBranches without the recursive call: only the roots are looked at.
CountBranchesRootsOnly(nodes, roots, fuel) ==
    SumSeq([i \in DOMAIN roots |->
               LET ch == nodes[roots[i]].children IN IF Len(ch) > 1 THEN Len(ch) ELSE 0])

RECURSIVE CountBranches(_, _, _)
CountBranches(nodes, roots, fuel) ==
    IF roots = <<>> THEN 0
    ELSE IF fuel = 0 THEN Overflow
    ELSE LET per == [i \in DOMAIN roots |->
                        LET ch  == nodes[roots[i]].children
                            sub == CountBranches(nodes, ch, fuel - 1)
                        IN  IF sub = Overflow THEN Overflow
                            ELSE (IF Len(ch) > 1 THEN Len(ch) ELSE 0) + sub]
         IN  IF Overflow \in SeqRange(per) THEN Overflow ELSE SumSeq(per)

RangeError == [null |-> FALSE, threw |-> "RangeError"]

\* replyCount counting only the emails whose inReplyTo names an email of the thread.
ReplyCountResolved(es) ==
    Len(SelectSeq(es, LAMBDA e : Truthy(e.inReplyTo) /\ e.inReplyTo \in EmailMapKeys(es)))

\* emails.forEach(email => { if (email.inReplyTo) stats.replyCount++; })
ReplyCount(es) == Len(SelectSeq(es, LAMBDA e : Truthy(e.inReplyTo)))

\* generateThreadStats(threadId)
GenerateThreadStats(ths, threadId) ==
    LET tree == BuildThreadTree(ths, threadId) IN
    IF tree.null THEN Null
    ELSE LET fuel  == Cardinality(DOMAIN tree.nodes)
             depth == CalculateMaxDepth(tree.nodes, tree.roots, 0, fuel)
             es    == ths[threadId]
         IN  IF depth = Overflow THEN RangeError
             ELSE [null        |-> FALSE,
                   threw       |-> "",
                   threadId    |-> threadId,
                   totalEmails |-> tree.totalEmails,
                   maxDepth    |-> depth,
                   branchCount |-> CountBranches(tree.nodes, tree.roots, fuel),
                   replyCount  |-> ReplyCount(es),
                   dateRange   |-> tree.dateRange]

\* Thread ids a caller may ask for: those of this.threads, and one that is
\* never a key of it.
TidArgs == DOMAIN threads \cup {"no-such-thread"}

NoThreads == [t \in {} |-> <<>>]
NoRet == [op |-> "none", arg |-> Undefined, val |-> Null]

\* State after `new EmailThreadProcessor()`; the file to read is the input.
InitProc ==
    /\ \/ \E n \in 0..MaxEmails : \E f \in [1..n -> RowFields] :
                /\ Canonical(n, f)
                /\ file = ArbitraryFile(n, f)
       \/ file \in FixtureFiles
       \/ file \in ReferencesFiles
    /\ emails = <<>>
    /\ threads = NoThreads
    /\ ret = NoRet

\* loadEmailsFromFile: the rows are collected and, at 'end', become this.emails.
LoadEmailsFromFile ==
    /\ emails' = file
    /\ ret' = [op |-> "loadEmailsFromFile", arg |-> Undefined, val |-> Null]
    /\ UNCHANGED <<file, threads>>

GroupByThreads ==
    /\ threads' \in GroupedOutcomes(emails)
    /\ ret' = [op |-> "groupByThreads", arg |-> Undefined, val |-> Null]
    /\ UNCHANGED <<file, emails>>

BuildThreadTreeCall(threadId) ==
    /\ ret' = [op |-> "buildThreadTree", arg |-> threadId,
               val |-> BuildThreadTree(threads, threadId)]
    /\ UNCHANGED <<file, emails, threads>>

GenerateThreadStatsCall(threadId) ==
    /\ ret' = [op |-> "generateThreadStats", arg |-> threadId,
               val |-> GenerateThreadStats(threads, threadId)]
    /\ UNCHANGED <<file, emails, threads>>


\* ------------------------------------------------ AdvancedSolrProcessor
MaxDocs == 3            \* documents in an arbitrary Solr response

DocId == <<"d1", "d2", "d3", "d4", "d5", "d6", "d7", "d8">>
Senders == {"a", "b"}
Subjects == {"", "s"}   \* normalizedSubject: none, or one shared subject
Windows == {0, 24}      \* proximityHours tried; dateSent is counted in hours

\* An email as getAllThreadableEmails builds it from a document.
Email(id, mid, irt, from, subj, d) ==
    [id |-> id, messageId |-> mid, inReplyTo |-> irt, from |-> from, to |-> <<>>,
     normalizedSubject |-> subj, dateSent |-> d]

\* The fields a builder does not read are held fixed in its inputs.
DocFields(appr) ==
    [messageId : MsgIds \cup {Undefined},
     inReplyTo : MsgIds \cup {Undefined},
     from      : IF appr = "proximity" THEN Senders ELSE {"a"},
     normalizedSubject : IF appr = "hybrid" THEN Subjects ELSE {""},
     dateSent  : Dates]

ArbitraryDocs(n, f) ==
    [i \in 1..n |-> Email(DocId[i], f[i].messageId, f[i].inReplyTo, f[i].from,
                          f[i].normalizedSubject, f[i].dateSent)]

CanonicalDocs(n, f) ==
    FirstIs([i \in 1..(2 * n) |->
                IF i <= n THEN f[i].messageId ELSE f[i - n].inReplyTo], "m1")

Approaches ==
    {[name |-> "message-id-only", proximityHours |-> 0],
     [name |-> "hybrid", proximityHours |-> 0]}
    \cup {[name |-> "proximity", proximityHours |-> w] : w \in Windows}

\* this.messageIdToEmail.set(email.messageId, email) for every email with a
\* messageId, in document order, on top of what the Map already holds.
MapAfter(map, es) ==
    LET new == {es[i].messageId : i \in {j \in DOMAIN es : Truthy(es[j].messageId)}}
    IN  [k \in DOMAIN map \cup new |->
            IF k \in new THEN es[Max({i \in DOMAIN es : es[i].messageId = k})]
            ELSE map[k]]

Resolves(map, e) == Truthy(e.inReplyTo) /\ e.inReplyTo \in DOMAIN map

\* email.messageId || email.id
IdOf(e) == IF Truthy(e.messageId) THEN e.messageId ELSE e.id

\* threads.has / threads.get on the insertion-ordered Map
HasThread(ths, tid) == \E i \in DOMAIN ths : ths[i].id = tid
ThreadIndex(ths, tid) == CHOOSE i \in DOMAIN ths : ths[i].id = tid

\* if (!threads.has(threadId)) threads.set(threadId, {...}); then the email is
\* pushed and its participants added (the tail of every builder's loop body).
\* The tail of the loop body with `thread.emails = [email]` for the push.
PushToAlone(ths, tid, e, method) ==
    LET ths1 == IF \E i \in DOMAIN ths : ths[i].id = tid THEN ths
                ELSE Append(ths, [id |-> tid, emails |-> <<>>, participants |-> {},
                                  method |-> method])
        i    == CHOOSE k \in DOMAIN ths1 : ths1[k].id = tid
    IN  [ths1 EXCEPT ![i].emails = <<e>>,
                     ![i].participants = @ \cup {e.from} \cup SeqRange(e.to)]

PushTo(ths, tid, e, method) ==
    LET ths1 == IF HasThread(ths, tid) THEN ths
                ELSE Append(ths, [id |-> tid, emails |-> <<>>, participants |-> {},
                                  method |-> method])
        i    == ThreadIndex(ths1, tid)
    IN  [ths1 EXCEPT ![i].emails = Append(@, e),
                     ![i].participants = @ \cup {e.from} \cup SeqRange(e.to)]

\* The state of a builder's loop.
Loop(ths, subj, done) == [threads |-> ths, subjects |-> subj, processed |-> done]
NoSubjects == [k \in {} |-> ""]
EmptyLoop == Loop(<<>>, NoSubjects, {})

\* One iteration of buildMessageIdOnlyThreads for `e`; `walked` says whether
\* the while-loop ran and `root` is the email it ended on.
\* buildMessageIdOnlyThreads with rootId always the email's own id.
IterMessageIdOnlyOwnId(l, e, walked, root) ==
    Loop(PushTo(l.threads, IdOf(e), e, "message-id-only"), l.subjects,
         l.processed \cup {e.id})

IterMessageIdOnly(l, e, walked, root) ==
    LET rootId == IF walked THEN IdOf(root) ELSE IdOf(e)
    IN  Loop(PushTo(l.threads, rootId, e, "message-id-only"), l.subjects,
             l.processed \cup {e.id})

Abs(x) == IF x < 0 THEN 0 - x ELSE x

\* The proximity scan: the first thread, in insertion order, whose last pushed
\* email is within the window and that shares a participant with `e`.
ProximityMatches(ths, e, hours) ==
    {i \in DOMAIN ths :
        LET lastEmail == ths[i].emails[Len(ths[i].emails)] IN
        /\ Abs(e.dateSent - lastEmail.dateSent) <= hours
        /\ \/ e.from \in ths[i].participants
           \/ \E j \in DOMAIN e.to : e.to[j] \in ths[i].participants}

IterProximity(l, e, walked, root, hours) ==
    LET tid0   == IF walked THEN IdOf(root) ELSE IdOf(e)
        found0 == walked /\ HasThread(l.threads, tid0)
        m      == ProximityMatches(l.threads, e, hours)
        tid    == IF ~found0 /\ m # {} THEN l.threads[Min(m)].id ELSE tid0
    IN  Loop(PushTo(l.threads, tid, e, "message-id-proximity"), l.subjects,
             l.processed \cup {e.id})

\* buildHybridThreads without the subject lookup.
IterHybridNoSubject(l, e, walked, root) ==
    LET found0 == walked /\ HasThread(l.threads, IdOf(root))
        tid    == IF found0 THEN IdOf(root) ELSE IdOf(e)
    IN  Loop(PushTo(l.threads, tid, e, "hybrid-message-id-subject"), l.subjects,
             l.processed \cup {e.id})

IterHybrid(l, e, walked, root) ==
    LET ns      == e.normalizedSubject
        found0  == walked /\ HasThread(l.threads, IdOf(root))
        bySubj  == ~found0 /\ ns # "" /\ ns \in DOMAIN l.subjects
        found   == found0 \/ (bySubj /\ HasThread(l.threads, l.subjects[ns]))
        tid     == IF found0 THEN IdOf(root)
                   ELSE IF found THEN l.subjects[ns]
                   ELSE IdOf(e)
        subj    == IF ~found /\ ns # ""
                   THEN [k \in DOMAIN l.subjects \cup {ns} |->
                            IF k = ns THEN tid ELSE l.subjects[k]]
                   ELSE l.subjects
    IN  Loop(PushTo(l.threads, tid, e, "hybrid-message-id-subject"), subj,
             l.processed \cup {e.id})

Iter(appr, l, e, walked, root) ==
    CASE appr.name = "message-id-only" -> IterMessageIdOnly(l, e, walked, root)
      [] appr.name = "proximity" -> IterProximity(l, e, walked, root, appr.proximityHours)
      [] appr.name = "hybrid" -> IterHybrid(l, e, walked, root)

\* The last loop of every builder: thread.emails.sort by dateSent.
Finished(ths) == [i \in DOMAIN ths |-> [ths[i] EXCEPT !.emails = SortByDate(@)]]

\* The while-loop `while (current.inReplyTo && this.messageIdToEmail.has(
\* current.inReplyTo)) current = this.messageIdToEmail.get(current.inReplyTo)`
\* run to its end: <<root>>, or <<>> when it never ends. A walk that ends
\* visits every email of the Map at most once, so `fuel` hops are enough.
RECURSIVE RootOf(_, _, _)
RootOf(map, e, fuel) ==
    IF ~Resolves(map, e) THEN <<e>>
    ELSE IF fuel = 0 THEN <<>>
    ELSE RootOf(map, map[e.inReplyTo], fuel - 1)

\* A builder's for-loop over this.emails from position i on: the loop state at
\* its end, or Diverges when some while-loop never ends.
Diverges == [diverges |-> TRUE]

RECURSIVE RunLoop(_, _, _, _, _)
RunLoop(appr, es, map, i, l) ==
    IF i > Len(es) THEN [diverges |-> FALSE, threads |-> Finished(l.threads)]
    ELSE LET e == es[i] IN
         IF e.id \in l.processed THEN RunLoop(appr, es, map, i + 1, l)
         ELSE IF ~Resolves(map, e)
         THEN RunLoop(appr, es, map, i + 1, Iter(appr, l, e, FALSE, e))
         ELSE LET r == RootOf(map, e, Cardinality(DOMAIN map) + 1) IN
              IF r = <<>> THEN Diverges
              ELSE RunLoop(appr, es, map, i + 1, Iter(appr, l, e, TRUE, r[1]))

\* getAllThreadableEmails on a fresh processor followed by one builder.
BuildThreads(appr, ds) ==
    RunLoop(appr, SortByDate(ds), MapAfter([k \in {} |-> <<>>], ds), 1, EmptyLoop)

\* Documents without Message-ID and In-Reply-To headers, which differ in
\* sender, recipient and hour: what the proximity scan reads.
Recipients == {<<>>, <<"a">>, <<"b">>}
ParticipantFields == [from : Senders, to : Recipients, dateSent : Dates]
ParticipantDocs(n, f) ==
    [i \in 1..n |->
        [Email(DocId[i], Undefined, Undefined, f[i].from, "", f[i].dateSent)
            EXCEPT !.to = f[i].to]]

\* State after `new AdvancedSolrProcessor()`; the Solr response and the
\* builder to run are the inputs.
InitSolr ==
    /\ approach \in Approaches
    /\ \/ \E n \in 0..MaxDocs : \E f \in [1..n -> DocFields(approach.name)] :
                /\ CanonicalDocs(n, f)
                /\ docs = ArbitraryDocs(n, f)
       \/ /\ approach.name = "proximity"
          /\ \E f \in [1..MaxDocs -> ParticipantFields] : docs = ParticipantDocs(MaxDocs, f)
    /\ semails = <<>>
    /\ messageIdToEmail = [k \in {} |-> <<>>]
    /\ sthreads = <<>>
    /\ subjectToThread = NoSubjects
    /\ processedEmails = {}
    /\ idx = 0
    /\ current = <<>>
    /\ spc = "idle"

\* getAllThreadableEmails: this.emails = emails.sort(by dateSent), and the Map
\* gets every email that has a messageId.
GetAllThreadableEmails ==
    /\ spc \in {"idle", "done"}
    /\ semails' = SortByDate(docs)
    /\ messageIdToEmail' = MapAfter(messageIdToEmail, docs)
    /\ spc' = "idle"
    /\ UNCHANGED <<docs, approach, sthreads, subjectToThread, processedEmails, idx,
                   current>>

\* A builder is entered: its local Maps and Set are created.
StartBuild ==
    /\ spc \in {"idle", "done"}
    /\ sthreads' = <<>>
    /\ subjectToThread' = NoSubjects
    /\ processedEmails' = {}
    /\ idx' = 1
    /\ current' = <<>>
    /\ spc' = "loop"
    /\ UNCHANGED <<docs, approach, semails, messageIdToEmail>>

SetLoop(l) ==
    /\ sthreads' = l.threads
    /\ subjectToThread' = l.subjects
    /\ processedEmails' = l.processed

\* The for-loop takes the next email: skips it, starts the while-loop on it, or
\* assigns it at once when its inReplyTo does not resolve.
LoopStep ==
    /\ spc = "loop"
    /\ idx <= Len(semails)
    /\ LET e == semails[idx] IN
       IF e.id \in processedEmails
       THEN /\ idx' = idx + 1
            /\ UNCHANGED <<sthreads, subjectToThread, processedEmails, current, spc>>
       ELSE IF Resolves(messageIdToEmail, e)
       THEN /\ current' = <<e>>
            /\ spc' = "walk"
            /\ UNCHANGED <<sthreads, subjectToThread, processedEmails, idx>>
       ELSE /\ SetLoop(Iter(approach, Loop(sthreads, subjectToThread, processedEmails),
                            e, FALSE, e))
            /\ idx' = idx + 1
            /\ UNCHANGED <<current, spc>>
    /\ UNCHANGED <<docs, approach, semails, messageIdToEmail>>

\* One test of the while-loop's condition: a hop to the parent, or the end of
\* the walk and the rest of the loop body.
WalkStep ==
    /\ spc = "walk"
    /\ IF Resolves(messageIdToEmail, current[1])
       THEN /\ current' = <<messageIdToEmail[current[1].inReplyTo]>>
            /\ UNCHANGED <<sthreads, subjectToThread, processedEmails, idx, spc>>
       ELSE /\ SetLoop(Iter(approach, Loop(sthreads, subjectToThread, processedEmails),
                            semails[idx], TRUE, current[1]))
            /\ idx' = idx + 1
            /\ current' = <<>>
            /\ spc' = "loop"
    /\ UNCHANGED <<docs, approach, semails, messageIdToEmail>>

\* The for-loop is over: every thread's emails are sorted and the Map returned.
FinishBuild ==
    /\ spc = "loop"
    /\ idx > Len(semails)
    /\ sthreads' = Finished(sthreads)
    /\ spc' = "done"
    /\ UNCHANGED <<docs, approach, semails, messageIdToEmail, subjectToThread,
                   processedEmails, idx, current>>

\* The processor of the other class is not used.
ProcIdle ==
    /\ file = <<>>
    /\ emails = <<>>
    /\ threads = NoThreads
    /\ ret = NoRet

SolrIdle ==
    /\ docs = <<>>
    /\ approach = [name |-> "message-id-only", proximityHours |-> 0]
    /\ semails = <<>>
    /\ messageIdToEmail = [k \in {} |-> <<>>]
    /\ sthreads = <<>>
    /\ subjectToThread = NoSubjects
    /\ processedEmails = {}
    /\ idx = 0
    /\ current = <<>>
    /\ spc = "idle"

\* normalizeSubject is not called.
TextIdle ==
    /\ subject = <<>>
    /\ normalized = <<>>

\* loadEmailsFromFile is not called through its stream events.
CallIds == {"first", "second"}
NoCall == [st |-> "none", file |-> <<>>, rows |-> <<>>, value |-> <<>>]
LoadIdle == calls = [c \in CallIds |-> NoCall]

\* parseColumnHistory is not called on its own.
NoInfo == [k \in {} |-> <<>>]
NotParsed == [parsed |-> FALSE, info |-> NoInfo]
HistIdle ==
    /\ written = NoInfo
    /\ columnHistory = <<>>
    /\ threadInfo = NotParsed

\* Solr's index does not change.
SameIndex == later = <<>>

\* The page of EmailThreadApp is not open.
LoadIds == {"l1", "l2"}
AppIdle ==
    /\ app = [open |-> FALSE]
    /\ loads = [l \in LoadIds |-> "none"]
    /\ clicked = "none"

\* SolrEmailProcessor is not used.
PipeIdle ==
    /\ solr = [used |-> FALSE]
    /\ csv = <<>>

MoreIdle ==
    /\ LoadIdle
    /\ HistIdle
    /\ SameIndex
    /\ AppIdle
    /\ PipeIdle

BuilderStep == LoopStep \/ WalkStep \/ FinishBuild

NextSolr ==
    \/ GetAllThreadableEmails /\ UNCHANGED <<procVars, textVars, moreVars>>
    \/ StartBuild /\ UNCHANGED <<procVars, textVars, moreVars>>
    \/ LoopStep /\ UNCHANGED <<procVars, textVars, moreVars>>
    \/ WalkStep /\ UNCHANGED <<procVars, textVars, moreVars>>
    \/ FinishBuild /\ UNCHANGED <<procVars, textVars, moreVars>>

SolrInit == ProcIdle /\ TextIdle /\ MoreIdle /\ InitSolr

SpecSolr == SolrInit /\ [][NextSolr]_vars

\* A builder is synchronous code: once entered it runs on without waiting.
SpecSolrFair == SpecSolr /\ WF_vars(BuilderStep /\ UNCHANGED <<procVars, textVars, moreVars>>)

NextProc ==
    \/ LoadEmailsFromFile /\ UNCHANGED <<solrVars, textVars, moreVars>>
    \/ GroupByThreads /\ UNCHANGED <<solrVars, textVars, moreVars>>
    \/ \E t \in TidArgs : BuildThreadTreeCall(t) /\ UNCHANGED <<solrVars, textVars, moreVars>>
    \/ \E t \in TidArgs : GenerateThreadStatsCall(t) /\ UNCHANGED <<solrVars, textVars, moreVars>>

ProcInit == SolrIdle /\ TextIdle /\ MoreIdle /\ InitProc

SpecProc == ProcInit /\ [][NextProc]_vars

\* Small batches given to a builder: arbitrary ones of at most MaxBatch
\* documents, and one reply chain of up to MaxChain emails sent at the same
\* hour, its documents in every order.
MaxBatch == 2
ChainDocs(n, p) ==
    [i \in 1..n |->
        Email(DocId[p[i]], ChainName[p[i]],
              IF p[i] = 1 THEN Undefined ELSE ChainName[p[i] - 1], "a", "", 1)]

BatchInit ==
    /\ ProcIdle
    /\ TextIdle
    /\ MoreIdle
    /\ approach \in Approaches
    /\ \/ \E n \in 0..MaxBatch : \E f \in [1..n -> DocFields(approach.name)] :
                /\ CanonicalDocs(n, f)
                /\ docs = ArbitraryDocs(n, f)
       \/ \E n \in 1..MaxChain : \E p \in [1..n -> 1..n] :
                /\ \A i, j \in 1..n : i # j => p[i] # p[j]
                /\ docs = ChainDocs(n, p)
    /\ semails = <<>>
    /\ messageIdToEmail = [k \in {} |-> <<>>]
    /\ sthreads = <<>>
    /\ subjectToThread = NoSubjects
    /\ processedEmails = {}
    /\ idx = 0
    /\ current = <<>>
    /\ spc = "idle"

SpecBatch == BatchInit /\ [][NextSolr]_vars

\* The processor run on the test fixtures only.
FixtureInit ==
    /\ SolrIdle
    /\ TextIdle
    /\ MoreIdle
    /\ file \in FixtureFiles
    /\ emails = <<>>
    /\ threads = NoThreads
    /\ ret = NoRet

SpecFixtures == FixtureInit /\ [][NextProc]_vars

\* The processor run on files whose rows all carry THREAD:t1 (at most
\* MaxEmails arbitrary rows), and on the test fixtures.
ThreadFields ==
    [messageId : MsgIds \cup {Undefined},
     inReplyTo : MsgIds \cup {Undefined},
     dateSent  : Dates]
OneThreadFile(n, f) ==
    [i \in 1..n |-> Row(i, f[i].messageId, f[i].inReplyTo, "t1", f[i].dateSent)]

ThreadInit ==
    /\ SolrIdle
    /\ TextIdle
    /\ MoreIdle
    /\ \/ \E n \in 1..MaxEmails : \E f \in [1..n -> ThreadFields] :
                /\ CanonicalDocs(n, f)
                /\ file = OneThreadFile(n, f)
       \/ file \in FixtureFiles
    /\ emails = <<>>
    /\ threads = NoThreads
    /\ ret = NoRet

SpecThread == ThreadInit /\ [][NextProc]_vars

\* ------------------------------------------------------ normalizeSubject
\* A subject line is a sequence of tokens: reply/forward markers as they are
\* written in mail ("Re:", "RE:", "Fwd:", "FW:"), a blank, and a word.
MaxSubject == 4         \* tokens of a subject line
SubjectTokens == {"Re:", "RE:", "Fwd:", "FW:", " ", "X"}

\* String.prototype.toLowerCase, token by token.
LowerToken(t) ==
    CASE t \in {"Re:", "RE:", "re:"} -> "re:"
      [] t \in {"Fwd:", "fwd:"} -> "fwd:"
      [] t \in {"FW:", "fw:"} -> "fw:"
      [] t \in {"X", "x"} -> "x"
      [] OTHER -> t
ToLowerCase(s) == [i \in DOMAIN s |-> LowerToken(s[i])]

\* (RE:|FW:|Fwd:|Re:) under the i flag
IsMarker(t) == LowerToken(t) \in {"re:", "fw:", "fwd:"}

\* \s* : the blanks a string starts with are dropped
RECURSIVE DropBlanks(_)
DropBlanks(s) == IF s # <<>> /\ s[1] = " " THEN DropBlanks(Tail(s)) ELSE s

RECURSIVE DropBlanksAtEnd(_)
DropBlanksAtEnd(s) ==
    IF s # <<>> /\ s[Len(s)] = " " THEN DropBlanksAtEnd(SubSeq(s, 1, Len(s) - 1)) ELSE s

\* String.prototype.trim
Trim(s) == DropBlanksAtEnd(DropBlanks(s))

\* subject.replace(/^(RE:|FW:|Fwd:|Re:)\s*/gi, ''): the pattern is anchored at
\* the start of the string, so it matches once at most.
StripMarker(s) == IF s # <<>> /\ IsMarker(s[1]) THEN DropBlanks(Tail(s)) ELSE s

\* A document without a subject: normalizeSubject is given undefined.
UndefinedSubject == <<Undefined>>

\* normalizeSubject(subject); '' is the empty sequence.
NormalizeSubject(s) ==
    IF s = UndefinedSubject \/ s = <<>> THEN <<>>
    ELSE ToLowerCase(Trim(StripMarker(s)))

SubjectInit ==
    /\ ProcIdle
    /\ SolrIdle
    /\ MoreIdle
    /\ \/ subject = UndefinedSubject
       \/ \E n \in 0..MaxSubject : subject \in [1..n -> SubjectTokens]
    /\ normalized = <<>>

\* normalizeSubject is called on the subject, then on what it returned.
NormalizeSubjectCall ==
    /\ Len(normalized) < 2
    /\ normalized' = Append(normalized,
                            NormalizeSubject(IF normalized = <<>> THEN subject
                                             ELSE normalized[Len(normalized)]))
    /\ UNCHANGED subject

NextSubject == NormalizeSubjectCall /\ UNCHANGED <<procVars, solrVars, moreVars>>

SpecSubject == SubjectInit /\ [][NextSubject]_vars

\* ====================================================================
\* Properties of EmailThreadProcessor (checked under SpecProc)
\* ====================================================================
TreeReturned == ret.op = "buildThreadTree" /\ ~ret.val.null
StatsReturned == ret.op = "generateThreadStats" /\ ~ret.val.null /\ ret.val.threw = ""

\* The emails of the thread the last call was about.
ThreadOfCall == threads[ret.arg]

\* The places of a forest where node k hangs: indices into roots, and
\* <<parent, index>> pairs into children lists.
RootPlaces(t, k) == {i \in DOMAIN t.roots : t.roots[i] = k}
ChildPlaces(t, k) ==
    {pj \in UNION {{<<p, j>> : j \in DOMAIN t.nodes[p].children} : p \in DOMAIN t.nodes} :
        t.nodes[pj[1]].children[pj[2]] = k}
ParentsOf(t, k) == {pj[1] : pj \in ChildPlaces(t, k)}

\* The nodes that carry email e (a node is a copy of one email).
NodesOf(t, e) == {k \in DOMAIN t.nodes : t.nodes[k].email.id = e.id}

\* Nodes met when following children from the roots.
RECURSIVE Closure(_, _)
Closure(t, S) ==
    LET S2 == S \cup UNION {SeqRange(t.nodes[k].children) : k \in S}
    IN  IF S2 = S THEN S ELSE Closure(t, S2)
Reachable(t) == Closure(t, SeqRange(t.roots))

ThreadSizes == [t \in DOMAIN threads |-> Len(threads[t])]
RECURSIVE SumOver(_, _)
SumOver(f, S) ==
    IF S = {} THEN 0 ELSE LET x == CHOOSE y \in S : TRUE IN f[x] + SumOver(f, S \ {x})

\* C1: after groupByThreads every email of this.emails is a member of exactly
\* one thread, so the thread sizes sum to this.emails.length.
C1_NoRecordDropped ==
    ret.op = "groupByThreads" =>
        /\ \A i \in DOMAIN emails :
              Cardinality({t \in DOMAIN threads :
                              \E j \in DOMAIN threads[t] : threads[t][j].id = emails[i].id}) = 1
        /\ SumOver(ThreadSizes, DOMAIN threads) = Len(emails)

\* C3: the forest returned by buildThreadTree has no cycle: following children
\* from the roots meets every node once, and every email of the thread is
\* reachable from some root (an edge closing a cycle is dropped, its node
\* becoming a root).
C3_ForestAcyclicAndCovering ==
    TreeReturned =>
        LET t == ret.val IN
        /\ \A k \in Reachable(t) :
              Cardinality(RootPlaces(t, k)) + Cardinality(ChildPlaces(t, k)) = 1
        /\ \A i \in DOMAIN ThreadOfCall :
              NodesOf(t, ThreadOfCall[i]) \cap Reachable(t) # {}

\* C4: in the forest returned by buildThreadTree no node is a child of two
\* different parents, and each email of the thread is there exactly once
\* (once in roots or once in one node's children), duplicates of a messageId
\* included.
C4_ExclusiveOwnership ==
    TreeReturned =>
        LET t == ret.val IN
        /\ \A k \in DOMAIN t.nodes : Cardinality(ParentsOf(t, k)) <= 1
        /\ \A i \in DOMAIN ThreadOfCall :
              LET ks == NodesOf(t, ThreadOfCall[i]) IN
              /\ Cardinality(ks) = 1
              /\ \A k \in ks :
                    Cardinality(RootPlaces(t, k)) + Cardinality(ChildPlaces(t, k)) = 1

\* The fixture is loaded, its rows in sent order or in reverse order.
IsFixture13 == emails \in {Fixture13, Fixture13Reversed}

\* C5: the 13-message fixture is grouped into exactly one thread, whose forest
\* has one root and whose statistics give maxDepth 4.
C5_FixtureOneThreadDepth4 ==
    IsFixture13 =>
        /\ ret.op = "groupByThreads" => Cardinality(DOMAIN threads) = 1
        /\ TreeReturned => Len(ret.val.roots) = 1
        /\ ret.op = "generateThreadStats" /\ ~ret.val.null =>
              ret.val.threw = "" /\ ret.val.maxDepth = 4

C5_Witness ==
    /\ IsFixture13
    /\ StatsReturned
    /\ ret.arg = "thread-001"
    /\ ret.val.totalEmails = 13

C7_ChainDepthN ==
    emails \in ChainFiles \cup ChainReversedFiles =>
        (ret.op = "generateThreadStats" /\ ~ret.val.null =>
            /\ ret.val.threw = ""
            /\ ret.val.maxDepth = Len(emails)
            /\ ret.val.branchCount = 0)

C7_Witness ==
    /\ emails \in ChainFiles \cup ChainReversedFiles
    /\ Len(emails) = MaxChain
    /\ StatsReturned
    /\ ret.val.totalEmails = MaxChain

\* e names a parent that is no email of es.
Dangling(es, e) ==
    /\ Truthy(e.inReplyTo)
    /\ \A j \in DOMAIN es : es[j].messageId # e.inReplyTo

\* C10: in the forest returned by buildThreadTree an email whose inReplyTo
\* matches no email of its thread is in roots and in no children list; a
\* thread of that email alone has it as its only root, with maxDepth 1.
C10_OrphanIsRoot ==
    /\ TreeReturned =>
          LET t == ret.val IN
          \A i \in DOMAIN ThreadOfCall :
              Dangling(ThreadOfCall, ThreadOfCall[i]) =>
                  /\ \E k \in NodesOf(t, ThreadOfCall[i]) : RootPlaces(t, k) # {}
                  /\ \A k \in NodesOf(t, ThreadOfCall[i]) : ChildPlaces(t, k) = {}
                  /\ Len(ThreadOfCall) = 1 => Len(t.roots) = 1
    /\ ret.op = "generateThreadStats" /\ ~ret.val.null =>
          (Len(ThreadOfCall) = 1 /\ Dangling(ThreadOfCall, ThreadOfCall[1]) =>
              ret.val.threw = "" /\ ret.val.maxDepth = 1)

\* The positions of e.references that name an email of es.
KnownRefs(es, e) ==
    {j \in DOMAIN e.references : e.references[j] \in EmailMapKeys(es)}

\* C11: in the forest returned by buildThreadTree an email whose inReplyTo
\* matches no email of the thread, but whose references name at least one
\* email of the thread, is a child of the last such entry of references and
\* is not a root.
C11_AncestorChainParent ==
    TreeReturned =>
        LET t == ret.val IN
        \A i \in DOMAIN ThreadOfCall :
            LET e == ThreadOfCall[i] IN
            ~(Truthy(e.inReplyTo) /\ e.inReplyTo \in EmailMapKeys(ThreadOfCall))
              /\ KnownRefs(ThreadOfCall, e) # {} =>
                /\ e.messageId \in
                      SeqRange(t.nodes[e.references[Max(KnownRefs(ThreadOfCall, e))]].children)
                /\ e.messageId \notin SeqRange(t.roots)

\* ====================================================================
\* Properties of AdvancedSolrProcessor (checked under SpecSolr)
\* ====================================================================
\* The builder has returned the threads of a loaded batch.
Built(name) == spc = "done" /\ approach.name = name /\ semails # <<>>

\* Thread membership: the set of the threads' sets of email ids.
Partition(ths) == {{ths[i].emails[j].id : j \in DOMAIN ths[i].emails} : i \in DOMAIN ths}
SameThread(ths, a, b) == \E s \in Partition(ths) : a \in s /\ b \in s

UniqueMessageIds(es) ==
    \A i, j \in DOMAIN es :
        i # j /\ Truthy(es[i].messageId) => es[i].messageId # es[j].messageId

Perms(n) == {p \in [1..n -> 1..n] : \A i, j \in 1..n : i # j => p[i] # p[j]}
Permuted(ds, p) == [i \in DOMAIN ds |-> ds[p[i]]]

NoSelfReply(es) == \A i \in DOMAIN es : es[i].inReplyTo # es[i].messageId

\* C2: every builder, once entered, returns (it is at "done" when it has),
\* also for a batch whose inReplyTo links form a cycle. The batches in which
\* an email names itself are left aside here: the cycle is one between
\* different emails, X naming Y and Y naming X.
C2_BuildersTerminate ==
    (NoSelfReply(docs) /\ spc \in {"loop", "walk"}) ~> (spc = "done")

\* C8: grouping is independent of the order of the batch: the threads
\* buildHybridThreads returns have the same membership for every order of the
\* documents (equal dateSent included).
C8_OrderIndependent ==
    Built("hybrid") /\ UniqueMessageIds(docs) =>
        \A p \in Perms(Len(docs)) :
            LET r == BuildThreads(approach, Permuted(docs, p)) IN
            /\ ~r.diverges
            /\ Partition(r.threads) = Partition(sthreads)

\* C9: in the result of buildMessageIdWithProximityThreads and of
\* buildHybridThreads, an email whose inReplyTo is the messageId of an email
\* of the batch is in the same thread as that email.
C9_ReplyWithParent ==
    (Built("proximity") \/ Built("hybrid")) /\ UniqueMessageIds(semails) =>
        \A i, j \in DOMAIN semails :
            i # j /\ Truthy(semails[i].inReplyTo)
                  /\ semails[i].inReplyTo = semails[j].messageId =>
                SameThread(sthreads, semails[i].id, semails[j].id)

\* C12: after getAllThreadableEmails, messageIdToEmail resolves every
\* messageId of the batch to the first document that carries it: a later
\* document with the same messageId does not replace it.
C12_FirstSeenWins ==
    semails # <<>> =>
        \A i \in DOMAIN docs :
            Truthy(docs[i].messageId) =>
                messageIdToEmail[docs[i].messageId].id =
                    docs[Min({j \in DOMAIN docs : docs[j].messageId = docs[i].messageId})].id

\* The builder's for-loop is at an email that starts no while-loop.
AtUnlinkedEmail ==
    /\ spc = "loop"
    /\ idx <= Len(semails)
    /\ semails[idx].id \notin processedEmails
    /\ ~Resolves(messageIdToEmail, semails[idx])

\* The ids a thread can have, in lexicographic order.
IdOrder == DocId \o <<"m1", "m2">>
IdRank(id) == CHOOSE i \in DOMAIN IdOrder : IdOrder[i] = id

LastDate(th) == th.emails[Len(th.emails)].dateSent

\* Among the threads `m` (positions in ths): those last active closest to,
\* and not after, the email; of these the one with the smallest id.
MostRecentlyActive(ths, e, m) ==
    LET notAfter == {i \in m : LastDate(ths[i]) <= e.dateSent}
        closest  == {i \in notAfter :
                        \A j \in notAfter : LastDate(ths[j]) <= LastDate(ths[i])}
    IN  {i \in closest : \A j \in closest : IdRank(ths[i].id) <= IdRank(ths[j].id)}

\* C15: in buildMessageIdWithProximityThreads, when several threads are
\* within the window of an email and share a participant with it, the email
\* is pushed to the one last active closest to (not after) its dateSent, the
\* smallest thread id deciding between equally close ones, whatever the
\* order in which the threads were created.
C15_MostRecentlyActiveThread ==
    [][ approach.name = "proximity" /\ AtUnlinkedEmail /\ idx' = idx + 1
        /\ Cardinality(ProximityMatches(sthreads, semails[idx],
                                         approach.proximityHours)) >= 2
        => \A i \in DOMAIN sthreads' :
              (\E j \in DOMAIN sthreads'[i].emails :
                    sthreads'[i].emails[j].id = semails[idx].id)
              => \E b \in MostRecentlyActive(sthreads, semails[idx],
                             ProximityMatches(sthreads, semails[idx],
                                              approach.proximityHours)) :
                    sthreads[b].id = sthreads'[i].id ]_vars

\* C16: every thread a builder returns has as its id the messageId (the id,
\* when it has no messageId) of one of its own emails.
C16_ThreadIdOfMember ==
    spc = "done" /\ semails # <<>> =>
        \A i \in DOMAIN sthreads :
            \E j \in DOMAIN sthreads[i].emails :
                IdOf(sthreads[i].emails[j]) = sthreads[i].id

\* ====================================================================
\* Properties of the builders on small batches (checked under SpecBatch)
\* ====================================================================
\* Emails i and j of this.emails have the same non-empty normalizedSubject
\* and neither has an inReplyTo that resolves.
SubjectPair(i, j) ==
    /\ i # j
    /\ semails[i].normalizedSubject # ""
    /\ semails[i].normalizedSubject = semails[j].normalizedSubject
    /\ ~Resolves(messageIdToEmail, semails[i])
    /\ ~Resolves(messageIdToEmail, semails[j])

\* C13: in the result of buildHybridThreads two emails with the same
\* non-empty normalizedSubject, neither with an inReplyTo that resolves, are
\* in one thread.
C13_SubjectFallback ==
    Built("hybrid") =>
        \A i, j \in DOMAIN semails :
            SubjectPair(i, j) => SameThread(sthreads, semails[i].id, semails[j].id)

C13_Witness ==
    /\ Built("hybrid")
    /\ \E i, j \in DOMAIN semails :
          /\ SubjectPair(i, j)
          /\ IdOf(semails[i]) # IdOf(semails[j])
          /\ SameThread(sthreads, semails[i].id, semails[j].id)

\* ====================================================================
\* Properties of normalizeSubject (checked under SpecSubject)
\* ====================================================================
\* C14: what normalizeSubject returns starts with no reply/forward marker,
\* however many the subject stacked, and normalizeSubject applied to it
\* returns it unchanged.
C14_NormalizeIdempotent ==
    /\ Len(normalized) >= 1 =>
          (normalized[1] = <<>> \/ ~IsMarker(normalized[1][1]))
    /\ Len(normalized) = 2 => normalized[2] = normalized[1]

\* The places <<thread, position>> of the returned threads that hold email e.
PlacesOf(ths, e) ==
    {tj \in UNION {{<<i, j>> : j \in DOMAIN ths[i].emails} : i \in DOMAIN ths} :
        ths[tj[1]].emails[tj[2]].id = e.id}
SizeOf(ths) == [i \in DOMAIN ths |-> Len(ths[i].emails)]

\* C17: when a builder returns (document ids are unique; it returns only if
\* no while-loop runs round a cycle of inReplyTo links), every email of
\* this.emails is in exactly one returned thread, once, and the sizes of the
\* threads sum to this.emails.length.
C17_BuildersPartition ==
    spc = "done" /\ semails # <<>> =>
        /\ \A i \in DOMAIN semails : Cardinality(PlacesOf(sthreads, semails[i])) = 1
        /\ SumSeq(SizeOf(sthreads)) = Len(semails)

C17_Witness ==
    /\ spc = "done"
    /\ Len(semails) >= 2
    /\ \E i \in DOMAIN semails : Resolves(messageIdToEmail, semails[i])
    /\ \E i \in DOMAIN sthreads : Len(sthreads[i].emails) >= 2
    /\ SumSeq(SizeOf(sthreads)) = Len(semails)

\* The emails met by following inReplyTo through messageIdToEmail from e, as
\* long as it resolves (e itself included); fuel bounds the hops.
RECURSIVE ChainFrom(_, _, _)
ChainFrom(map, e, fuel) ==
    IF ~Resolves(map, e) \/ fuel = 0 THEN {e}
    ELSE {e} \cup ChainFrom(map, map[e.inReplyTo], fuel - 1)

\* C18: in the result of buildMessageIdOnlyThreads an email is in the same
\* thread as every email its chain of resolving inReplyTo values leads to,
\* and two emails whose chains meet are in the same thread, whatever the
\* order of the emails in the batch.
C18_ChainInOneThread ==
    Built("message-id-only") =>
        \A i, j \in DOMAIN semails :
            LET ci == ChainFrom(messageIdToEmail, semails[i], Len(semails))
                cj == ChainFrom(messageIdToEmail, semails[j], Len(semails))
            IN  /\ \A a \in ci : SameThread(sthreads, semails[i].id, a.id)
                /\ ci \cap cj # {} => SameThread(sthreads, semails[i].id, semails[j].id)

\* A chain of three emails, a reply placed before its parent in the batch.
C18_Witness ==
    /\ Built("message-id-only")
    /\ \E i, j \in DOMAIN semails :
          /\ i < j
          /\ Resolves(messageIdToEmail, semails[i])
          /\ messageIdToEmail[semails[i].inReplyTo].id = semails[j].id
          /\ Cardinality(ChainFrom(messageIdToEmail, semails[i], Len(semails))) >= 3
    /\ Len(sthreads) = 1

\* ====================================================================
\* Properties of generateThreadStats (checked under SpecThread)
\* ====================================================================
\* The forest of the thread the statistics are about.
TreeOfCall == BuildThreadTree(threads, ret.arg)

\* The nodes met when walking a forest from its roots, level by level: the
\* roots, then their children, and so on; a node met twice is listed twice.
ChildrenOfAll(t, ks) ==
    IF ks = <<>> THEN <<>>
    ELSE LET n == Len(ks)
             total == SumSeq([i \in 1..n |-> Len(t.nodes[ks[i]].children)])
             \* the p-th child overall: child q of node i
             Owner(p) == CHOOSE i \in 1..n :
                            LET before == SumSeq([x \in 1..(i - 1) |->
                                                    Len(t.nodes[ks[x]].children)])
                            IN  before < p /\ p <= before + Len(t.nodes[ks[i]].children)
         IN  [p \in 1..total |->
                LET i == Owner(p)
                    before == SumSeq([x \in 1..(i - 1) |-> Len(t.nodes[ks[x]].children)])
                IN  t.nodes[ks[i]].children[p - before]]

RECURSIVE Visits(_, _, _)
Visits(t, level, fuel) ==
    IF level = <<>> \/ fuel = 0 THEN <<>>
    ELSE level \o Visits(t, ChildrenOfAll(t, level), fuel - 1)

VisitsOfCall == Visits(TreeOfCall, TreeOfCall.roots, Cardinality(DOMAIN TreeOfCall.nodes))

ChildCount(t, k) == Len(t.nodes[k].children)

C20_ReplyCountNonRoots ==
    StatsReturned => ret.val.replyCount = ret.val.totalEmails - Len(TreeOfCall.roots)

\* The emails of the thread whose inReplyTo is set but names none of them.
DanglingOfCall == {i \in DOMAIN ThreadOfCall : Dangling(ThreadOfCall, ThreadOfCall[i])}

\* C20 amended: replyCount is the number of emails of the thread whose
\* inReplyTo is set, whether or not it names an email of the thread: it is
\* totalEmails minus the number of roots plus the number of emails whose
\* inReplyTo names no email of the thread (these are roots, and counted).
C20_ReplyCountInReplyToSet ==
    StatsReturned =>
        /\ ret.val.replyCount =
              Cardinality({i \in DOMAIN ThreadOfCall : Truthy(ThreadOfCall[i].inReplyTo)})
        /\ ret.val.replyCount =
              ret.val.totalEmails - Len(TreeOfCall.roots) + Cardinality(DanglingOfCall)

\* A thread with a reply to one of its emails and a reply to a missing one.
C20_Witness ==
    /\ StatsReturned
    /\ DanglingOfCall # {}
    /\ Len(TreeOfCall.roots) < ret.val.totalEmails
    /\ ret.val.replyCount >= 2

\* ====================================================================
\* Further properties of EmailThreadProcessor
\* ====================================================================
\* C21: in the forest returned by buildThreadTree the children of every node
\* are in non-decreasing order of dateSent, whatever the order of the rows in
\* the file.
C21_ChildrenByDate ==
    TreeReturned =>
        LET t == ret.val IN
        \A k \in DOMAIN t.nodes :
            \A i, j \in DOMAIN t.nodes[k].children :
                i < j => t.nodes[t.nodes[k].children[i]].email.dateSent
                            <= t.nodes[t.nodes[k].children[j]].email.dateSent

\* ====================================================================
\* parseColumnHistory (EmailThreadProcessor) and the writers of the field
\* A string is a sequence of tokens: the part names "MSG-ID:", "IN-REPLY-TO:",
\* "REFS:", "THREAD:" and the flags "FWD:true", "EXTERNAL:true" are one token
\* each, "|" and " " are the separators, "<>" is the empty reference list and
\* every other token is a run of characters of an id.  An absent or empty
\* field is <<>>.
MaxId == 2              \* length of an id in characters
IdChars == {"a", "|"}   \* a letter, and the bar that RFC 5322 allows in an id
Ids == UNION {[1..n -> IdChars] : n \in 1..MaxId}

\* String.prototype.split(sep): the pieces between the separators.
RECURSIVE Split(_, _)
Split(s, sep) ==
    IF \A i \in DOMAIN s : s[i] # sep THEN <<s>>
    ELSE LET i == Min({j \in DOMAIN s : s[j] = sep})
         IN  <<SubSeq(s, 1, i - 1)>> \o Split(SubSeq(s, i + 1, Len(s)), sep)

\* Array.prototype.join(sep)
RECURSIVE Join(_, _)
Join(list, sep) ==
    IF list = <<>> THEN <<>>
    ELSE IF Len(list) = 1 THEN list[1]
    ELSE list[1] \o <<sep>> \o Join(Tail(list), sep)

\* result.key = val
Put(result, key, val) ==
    [k \in DOMAIN result \cup {key} |-> IF k = key THEN val ELSE result[k]]

StartsWith(part, name) == part # <<>> /\ part[1] = name

\* The body of parts.forEach in parseColumnHistory.
ParsePart(result, part) ==
    IF StartsWith(part, "MSG-ID:") THEN Put(result, "messageId", Tail(part))
    ELSE IF StartsWith(part, "IN-REPLY-TO:") THEN Put(result, "inReplyTo", Tail(part))
    ELSE IF StartsWith(part, "REFS:") THEN
        Put(result, "references",
            IF Tail(part) = <<"<>">> THEN <<>>
            ELSE SelectSeq(Split(Tail(part), " "), LAMBDA r : r # <<>>))
    ELSE IF StartsWith(part, "THREAD:") THEN Put(result, "threadId", Tail(part))
    ELSE IF part = <<"FWD:true">> THEN Put(result, "isForward", TRUE)
    ELSE IF part = <<"EXTERNAL:true">> THEN Put(result, "isExternal", TRUE)
    ELSE result

RECURSIVE ParseParts(_, _)
ParseParts(result, parts) ==
    IF parts = <<>> THEN result
    ELSE ParseParts(ParsePart(result, parts[1]), Tail(parts))

ParseColumnHistory(ch) ==
    IF ch = <<>> THEN NoInfo ELSE ParseParts(NoInfo, Split(ch, "|"))

\* The format the README documents: one part per piece of metadata, the
\* references as a space-separated list or <>, a flag present when it is true.
PartOf(info, key) ==
    CASE key = "messageId" -> <<"MSG-ID:">> \o info.messageId
      [] key = "inReplyTo" -> <<"IN-REPLY-TO:">> \o info.inReplyTo
      [] key = "threadId" -> <<"THREAD:">> \o info.threadId
      [] key = "references" ->
            <<"REFS:">> \o (IF info.references = <<>> THEN <<"<>">>
                            ELSE Join(info.references, " "))
      [] key = "isForward" -> <<"FWD:true">>
      [] key = "isExternal" -> <<"EXTERNAL:true">>

\* The parts of `info` in the order `keys`, joined by "|".
DocumentedHistory(info, keys) == Join([i \in DOMAIN keys |-> PartOf(info, keys[i])], "|")

\* The column_history written by the export of runHybridThreading for an
\* email (a function that has the key messageId or inReplyTo only when the
\* header was found) of the thread `tid`.
OrEmpty(email, key) == IF key \in DOMAIN email THEN email[key] ELSE <<>>
HybridHistory(email, tid) ==
    <<"MSG-ID:">> \o OrEmpty(email, "messageId")
        \o <<"|", "IN-REPLY-TO:">> \o OrEmpty(email, "inReplyTo")
        \o <<"|", "REFS:">> \o Join(email.references, " ")
        \o <<"|", "THREAD:">> \o tid

\* The metadata written: ids of at most MaxId characters, no reference, one,
\* or two; the parts of the documented format in every order.
HistRefs == {<<>>, <<<<"a">>>>, <<<<"a">>, <<"a", "a">>>>}
PartNames == {"messageId", "inReplyTo", "references", "threadId"}
FlagNames == {"isForward", "isExternal"}

Metadata(mid, irt, refs, tid, flags) ==
    [k \in PartNames \cup flags |->
        CASE k = "messageId" -> mid
          [] k = "inReplyTo" -> irt
          [] k = "references" -> refs
          [] k = "threadId" -> tid
          [] OTHER -> TRUE]

\* An email of AdvancedSolrProcessor as far as the export reads it.
HybridEmail(present, mid, irt, refs) ==
    [k \in present \cup {"references"} |->
        CASE k = "messageId" -> mid
          [] k = "inReplyTo" -> irt
          [] OTHER -> refs]

HistInit ==
    /\ ProcIdle
    /\ SolrIdle
    /\ TextIdle
    /\ LoadIdle
    /\ SameIndex
    /\ AppIdle
    /\ PipeIdle
    /\ threadInfo = NotParsed
    /\ \/ \E mid \in Ids, irt \in Ids, refs \in HistRefs, flags \in SUBSET FlagNames :
            LET info == Metadata(mid, irt, refs, <<"a">>, flags)
                n == Cardinality(DOMAIN info)
            IN  \E keys \in [1..n -> DOMAIN info] :
                    /\ \A i, j \in 1..n : i # j => keys[i] # keys[j]
                    /\ written = info
                    /\ columnHistory = DocumentedHistory(info, keys)
       \/ \E present \in SUBSET {"messageId", "inReplyTo"}, mid \in Ids, irt \in Ids,
             refs \in HistRefs, tid \in Ids :
            LET email == HybridEmail(present, mid, irt, refs)
            IN  /\ written = Put(email, "threadId", tid)
                /\ columnHistory = HybridHistory(email, tid)

ParseColumnHistoryCall ==
    /\ ~threadInfo.parsed
    /\ threadInfo' = [parsed |-> TRUE, info |-> ParseColumnHistory(columnHistory)]
    /\ UNCHANGED <<written, columnHistory>>

NextHist ==
    ParseColumnHistoryCall /\ UNCHANGED <<procVars, solrVars, textVars, loadVars, later, appVars, pipeVars>>

SpecHist == HistInit /\ [][NextHist]_vars

\* C24: parseColumnHistory returns exactly the metadata that was written in
\* the column_history field: every part and flag written is returned with the
\* value written, and nothing else is returned; this for the documented format
\* with its parts in any order and for the field written by the hybrid export.
C24_ColumnHistoryRoundTrip ==
    threadInfo.parsed =>
        \A k \in PartNames \cup FlagNames :
            /\ k \in DOMAIN written <=> k \in DOMAIN threadInfo.info
            /\ k \in DOMAIN written /\ k \in DOMAIN threadInfo.info
                    => threadInfo.info[k] = written[k]

\* ====================================================================
\* loadEmailsFromFile as the stream runs it: 'data' once per row, then 'end'
\* (or 'error'), each event a step of its own, so that calls can overlap.
MaxLoadRows == 2        \* rows of a file read by one call
RawDates == {"1", "2", "", "soon"}  \* DateSent: hour 1, hour 2, empty, no date

\* new Date(row.DateSent)
ParseDate(text) ==
    CASE text = "1" -> 1
      [] text = "2" -> 2
      [] OTHER -> InvalidDate

\* A string of one token is that token, the empty string is "".
Text(s) == IF s = <<>> THEN "" ELSE IF Len(s) = 1 THEN s[1] ELSE s
Field(info, key) == IF key \in DOMAIN info THEN Text(info[key]) ELSE Undefined

\* The email the 'data' handler builds from a row.
EmailOfRow(row) ==
    LET info == ParseColumnHistory(row.column_history) IN
    [id         |-> row.BegBates,
     messageId  |-> Field(info, "messageId"),
     inReplyTo  |-> Field(info, "inReplyTo"),
     threadId   |-> Field(info, "threadId"),
     dateSent   |-> ParseDate(row.DateSent),
     references |-> IF "references" \in DOMAIN info
                    THEN [i \in DOMAIN info.references |-> Text(info.references[i])]
                    ELSE Undefined]

\* The file a call reads: n rows of thread t1 in the documented format, the
\* first the original email m1, the others replies m2 to it; BegBates counts
\* from `base`, so that the rows of two files differ.
LoadRow(base, i, date) ==
    [BegBates |-> base + i,
     DateSent |-> date,
     column_history |->
        DocumentedHistory(
            Metadata(<<IF i = 1 THEN "m1" ELSE "m2">>, <<"m1">>, <<>>, <<"t1">>, {}),
            IF i = 1 THEN <<"messageId", "references", "threadId">>
            ELSE <<"messageId", "references", "threadId", "inReplyTo">>)]
LoadFile(base, n, dates) == [i \in 1..n |-> LoadRow(base, i, dates[i])]
BaseOf(c) == IF c = "first" THEN 0 ELSE 10

\* What a finished call makes of its file.
Batch(c) == [i \in DOMAIN calls[c].file |-> EmailOfRow(calls[c].file[i])]

LoadInit ==
    /\ SolrIdle
    /\ TextIdle
    /\ HistIdle
    /\ SameIndex
    /\ AppIdle
    /\ PipeIdle
    /\ file = <<>>
    /\ emails = <<>>
    /\ threads = NoThreads
    /\ ret = NoRet
    /\ \E n1, n2 \in 0..MaxLoadRows :
        \E d1 \in [1..n1 -> RawDates], d2 \in [1..n2 -> RawDates] :
            calls = [c \in CallIds |->
                        [NoCall EXCEPT !.file = IF c = "first"
                                                THEN LoadFile(BaseOf(c), n1, d1)
                                                ELSE LoadFile(BaseOf(c), n2, d2)]]

\* emails.push(email), on the array of the call.
PushShared(cs, c, email) == [d \in CallIds |-> [cs[d] EXCEPT !.rows = Append(@, email)]]
Push(cs, c, email) == [cs EXCEPT ![c].rows = Append(@, email)]

\* loadEmailsFromFile(filePath) is called: const emails = [], the stream opens.
StartLoad(c) ==
    /\ calls[c].st = "none"
    /\ calls' = [calls EXCEPT ![c].st = "reading", ![c].rows = <<>>]
    /\ UNCHANGED procVars

OnData(c) ==
    /\ calls[c].st = "reading"
    /\ Len(calls[c].rows) < Len(calls[c].file)
    /\ calls' = Push(calls, c, EmailOfRow(calls[c].file[Len(calls[c].rows) + 1]))
    /\ UNCHANGED procVars

\* 'end': this.emails = emails; resolve(emails)
OnEnd(c) ==
    /\ calls[c].st = "reading"
    /\ Len(calls[c].rows) = Len(calls[c].file)
    /\ emails' = calls[c].rows
    /\ calls' = [calls EXCEPT ![c].st = "resolved", ![c].value = calls[c].rows]
    /\ ret' = [op |-> "loadEmailsFromFile", arg |-> Undefined, val |-> Null]
    /\ UNCHANGED <<file, threads>>

\* 'error': reject
OnError(c) ==
    /\ calls[c].st = "reading"
    /\ calls' = [calls EXCEPT ![c].st = "rejected"]
    /\ UNCHANGED procVars

NextLoad ==
    \/ \E c \in CallIds : StartLoad(c) /\ UNCHANGED <<solrVars, textVars, histVars, later, appVars, pipeVars>>
    \/ \E c \in CallIds : OnData(c) /\ UNCHANGED <<solrVars, textVars, histVars, later, appVars, pipeVars>>
    \/ \E c \in CallIds : OnEnd(c) /\ UNCHANGED <<solrVars, textVars, histVars, later, appVars, pipeVars>>
    \/ \E c \in CallIds : OnError(c) /\ UNCHANGED <<solrVars, textVars, histVars, later, appVars, pipeVars>>

SpecLoad == LoadInit /\ [][NextLoad]_vars

\* C22: no email of this.emails has an invalid dateSent: a row whose DateSent
\* is missing or is no date is left out of the batch.
C22_NoInvalidDate ==
    \A i \in DOMAIN emails : emails[i].dateSent # InvalidDate

\* C28: whatever the interleaving of the events of two loadEmailsFromFile
\* calls, this.emails is the previous batch (none) or the complete batch of one
\* of the two files, and a call that has resolved resolved with the batch of
\* its own file.
C28_LoadsDoNotMix ==
    /\ emails \in {<<>>} \cup {Batch(c) : c \in {d \in CallIds : calls[d].st = "resolved"}}
    /\ \A c \in CallIds : calls[c].st = "resolved" => calls[c].value = Batch(c)

\* One call resolved while the other was part-way through its file.
C28_Witness ==
    /\ calls["first"].st = "resolved"
    /\ Len(calls["first"].file) = MaxLoadRows
    /\ calls["second"].st = "reading"
    /\ Len(calls["second"].rows) > 0
    /\ Len(calls["second"].rows) < Len(calls["second"].file)
    /\ emails = Batch("first")

\* ====================================================================
\* The other calls of EmailThreadProcessor
\* generateThreadReport(outputPath): groupByThreads, then the statistics of
\* every thread; the report is complete before the first await.
ThreadReport(es, ths) ==
    LET stats == [t \in DOMAIN ths |-> GenerateThreadStats(ths, t)] IN
    IF \E t \in DOMAIN ths : stats[t] = RangeError THEN RangeError
    ELSE [null |-> FALSE, threw |-> "",
          summary |-> [totalEmails |-> Len(es), totalThreads |-> Cardinality(DOMAIN ths)],
          threads |-> stats]

GenerateThreadReportCall ==
    /\ \E ths \in GroupedOutcomes(emails) :
            /\ threads' = ths
            /\ ret' = [op |-> "generateThreadReport", arg |-> Undefined,
                       val |-> ThreadReport(emails, ths)]
    /\ UNCHANGED <<file, emails>>

\* The processor reloaded: loads, and between their events the other calls.
NextReload ==
    \/ NextLoad
    \/ GroupByThreads /\ UNCHANGED <<solrVars, textVars, moreVars>>
    \/ \E t \in TidArgs : BuildThreadTreeCall(t) /\ UNCHANGED <<solrVars, textVars, moreVars>>
    \/ \E t \in TidArgs : GenerateThreadStatsCall(t) /\ UNCHANGED <<solrVars, textVars, moreVars>>
    \/ GenerateThreadReportCall /\ UNCHANGED <<solrVars, textVars, moreVars>>

SpecReload == LoadInit /\ [][NextReload]_vars

LoadedIn(tid) == {i \in DOMAIN emails : emails[i].threadId = tid}

\* C30: a tree, statistics or report returned after a load has resolved is
\* made of the emails of this.emails, the batch loaded last: every node of the
\* tree is one of them, and totalEmails counts those of them in the thread.
C30_NoStaleThreads ==
    /\ TreeReturned =>
            \A k \in DOMAIN ret.val.nodes : ret.val.nodes[k].email \in SeqRange(emails)
    /\ StatsReturned => ret.val.totalEmails = Cardinality(LoadedIn(ret.arg))
    /\ ret.op = "generateThreadReport" /\ ret.val.threw = "" =>
            \A t \in DOMAIN ret.val.threads :
                ret.val.threads[t].totalEmails = Cardinality(LoadedIn(t))

\* exportForPythonProcessing(threadId, outputDir): throws when buildThreadTree
\* returns null; otherwise one .eml file per email of the thread and the
\* metadata file with the tree and the statistics.
NotFound(threadId) == [null |-> FALSE, threw |-> "Thread not found", threadId |-> threadId]

ExportUnchecked(ths, threadId) ==
    [null |-> FALSE, threw |-> "", emlFiles |-> <<>>, threadId |-> threadId]

ExportForPythonProcessing(ths, threadId) ==
    LET tree == BuildThreadTree(ths, threadId) IN
    IF tree.null THEN NotFound(threadId)
    ELSE IF GenerateThreadStats(ths, threadId) = RangeError THEN RangeError
    ELSE [null |-> FALSE, threw |-> "",
          emlFiles |-> [i \in DOMAIN ths[threadId] |-> ths[threadId][i].id],
          threadId |-> threadId]

ExportForPythonProcessingCall(threadId) ==
    /\ ret' = [op |-> "exportForPythonProcessing", arg |-> threadId,
               val |-> ExportForPythonProcessing(threads, threadId)]
    /\ UNCHANGED <<file, emails, threads>>

\* Thread ids a caller may ask for at any time, grouped or not.
CallArgs == ThreadIds \cup {"no-such-thread"}

NextCalls ==
    \/ LoadEmailsFromFile /\ UNCHANGED <<solrVars, textVars, moreVars>>
    \/ GroupByThreads /\ UNCHANGED <<solrVars, textVars, moreVars>>
    \/ \E t \in CallArgs : BuildThreadTreeCall(t) /\ UNCHANGED <<solrVars, textVars, moreVars>>
    \/ \E t \in CallArgs : GenerateThreadStatsCall(t) /\ UNCHANGED <<solrVars, textVars, moreVars>>
    \/ \E t \in CallArgs :
            ExportForPythonProcessingCall(t) /\ UNCHANGED <<solrVars, textVars, moreVars>>

\* The processor run on files of at most MaxLoadRows rows of thread t1, and on
\* the 13-message fixture.
CallsInit ==
    /\ SolrIdle
    /\ TextIdle
    /\ MoreIdle
    /\ \/ \E n \in 0..MaxLoadRows : \E f \in [1..n -> ThreadFields] :
                /\ CanonicalDocs(n, f)
                /\ file = OneThreadFile(n, f)
       \/ file = Fixture13
    /\ emails = <<>>
    /\ threads = NoThreads
    /\ ret = NoRet

SpecCalls == CallsInit /\ [][NextCalls]_vars

Lookups == {"buildThreadTree", "generateThreadStats", "exportForPythonProcessing"}

\* C27: called with a threadId that is not a key of this.threads (any id
\* before groupByThreads has run), buildThreadTree and generateThreadStats
\* return null and exportForPythonProcessing rejects with 'Thread ... not
\* found'; the call leaves this.emails and this.threads as they were.
C27_UnknownThread ==
    /\ [](ret.op \in Lookups /\ ret.arg \notin DOMAIN threads =>
            IF ret.op = "exportForPythonProcessing" THEN ret.val = NotFound(ret.arg)
            ELSE ret.val = Null)
    /\ [][ret'.op \in Lookups /\ ret'.arg \notin DOMAIN threads =>
            emails' = emails /\ threads' = threads]_vars

\* The export asked for thread t1 after the load and before groupByThreads.
C27_Witness ==
    /\ ret.op = "exportForPythonProcessing"
    /\ ret.arg = "t1"
    /\ emails # <<>>
    /\ \E i \in DOMAIN emails : emails[i].threadId = "t1"
    /\ threads = NoThreads
    /\ ret.val = NotFound("t1")

\* ====================================================================
\* AdvancedSolrProcessor used for a second run: the index has changed and
\* getAllThreadableEmails reads another batch into the same object.
\* The later batch: one document, with an id no earlier document has.
LaterDocs(f) ==
    <<Email(DocId[MaxBatch + 1], f.messageId, f.inReplyTo, f.from, f.normalizedSubject,
            f.dateSent)>>

RerunInit ==
    /\ ProcIdle
    /\ TextIdle
    /\ LoadIdle
    /\ HistIdle
    /\ AppIdle
    /\ PipeIdle
    /\ approach = [name |-> "message-id-only", proximityHours |-> 0]
    /\ \E n \in 0..MaxBatch : \E f \in [1..n -> DocFields(approach.name)] :
            /\ CanonicalDocs(n, f)
            /\ docs = ArbitraryDocs(n, f)
    /\ \E f \in DocFields(approach.name) : later = <<LaterDocs(f)>>
    /\ semails = <<>>
    /\ messageIdToEmail = [k \in {} |-> <<>>]
    /\ sthreads = <<>>
    /\ subjectToThread = NoSubjects
    /\ processedEmails = {}
    /\ idx = 0
    /\ current = <<>>
    /\ spc = "idle"

\* Between two runs the index changes: the next query is answered with the
\* later batch.
IndexChanges ==
    /\ spc = "done"
    /\ later # <<>>
    /\ docs' = later[1]
    /\ later' = <<>>
    /\ UNCHANGED <<approach, semails, messageIdToEmail, sthreads, subjectToThread,
                   processedEmails, idx, current, spc>>

NextRerun ==
    \/ NextSolr
    \/ IndexChanges /\ UNCHANGED <<procVars, textVars, loadVars, histVars, appVars, pipeVars>>

SpecRerun == RerunInit /\ [][NextRerun]_vars

\* C23: messageIdToEmail holds emails of this.emails only, and a thread the
\* message-id-only builder returns is named after an email of this.emails:
\* what an earlier run on the same object read is gone.
C23_IndexOfLatestBatch ==
    /\ \A k \in DOMAIN messageIdToEmail : messageIdToEmail[k] \in SeqRange(semails)
    /\ Built("message-id-only") =>
            \A i \in DOMAIN sthreads : \E j \in DOMAIN semails : IdOf(semails[j]) = sthreads[i].id

\* ====================================================================
\* EmailThreadApp (src/index.js): the page, its view toggle buttons, its loads
\* The thread data returned by the WASM processor is named by its thread id.
\* A call of the processor returns or throws; an awaited promise resolves or
\* rejects; each stretch of code between two awaits is one step.
Views == {"tree", "timeline", "compact"}    \* data-view of the toggle buttons
NoData == "null"
NoView == [data |-> NoData, mode |-> "none"]
ThreadLists == {<<>>, <<"t1">>, <<"t1", "t2">>}  \* get_thread_ids()

\* State after the constructor and init(); `marked` are the toggle buttons the
\* page marks active when it opens.
NewApp(marked) ==
    [open              |-> TRUE,
     currentView       |-> "tree",
     currentThreadData |-> NoData,
     currentThreadId   |-> NoData,
     active            |-> marked,      \* toggle buttons with class active
     shown             |-> NoView,      \* content of #threadVisualization
     interface         |-> FALSE,       \* thread header, stats, controls, view
     processing        |-> FALSE,       \* #processingStatus displayed
     error             |-> FALSE,       \* #errorSection displayed
     upload            |-> TRUE,        \* #uploadSection displayed
     list              |-> <<>>]        \* items of #threadList

HideError(a) == [a EXCEPT !.error = FALSE]
HideProcessingStatus(a) == [a EXCEPT !.processing = FALSE]
ShowProcessingStatus(a) == HideError([a EXCEPT !.processing = TRUE])

ShowErrorKeepStatus(a) == [a EXCEPT !.error = TRUE]
ShowError(a) == HideProcessingStatus([a EXCEPT !.error = TRUE])

RenderThreadView(a, data, viewMode) ==
    [a EXCEPT !.shown = [data |-> data,
                         mode |-> IF viewMode \in Views THEN viewMode ELSE "tree"]]

ShowThreadInterface(a) == [a EXCEPT !.interface = TRUE]

\* selectThread(threadId); `ok` is whether build_thread_tree and
\* generate_thread_stats return.
SelectThread(a, threadId, ok) ==
    LET s == ShowProcessingStatus(a) IN
    IF ~ok THEN ShowError(s)
    ELSE LET t == [s EXCEPT !.currentThreadData = threadId, !.currentThreadId = threadId]
         IN  RenderThreadView(ShowThreadInterface(HideProcessingStatus(t)),
                              t.currentThreadData, t.currentView)

\* populateThreadList: the ids whose statistics could be read get an item.
Listed(ids, skipped) == SelectSeq(ids, LAMBDA t : t \notin skipped)

\* showResults(emailCount, threadCount, threadIds)
ShowResults(a, ids, skipped, ok) ==
    LET s == [HideError(HideProcessingStatus(a)) EXCEPT
                    !.upload = FALSE, !.list = Listed(ids, skipped)]
    IN  IF ids # <<>> THEN SelectThread(s, ids[1], ok) ELSE s

\* processEmailData(csvData); `loaded` is whether load_emails_from_csv,
\* group_by_threads and get_thread_ids return.
ProcessEmailData(a, loaded, ids, skipped, ok) ==
    LET s == ShowProcessingStatus(a) IN
    IF ~loaded THEN ShowError(s)
    ELSE ShowResults(HideProcessingStatus(ShowProcessingStatus(s)), ids, skipped, ok)

ResetApp(a) ==
    [a EXCEPT !.upload = TRUE, !.interface = FALSE, !.list = <<>>,
              !.currentThreadData = NoData, !.currentThreadId = NoData]

\* The click listener of a toggle button.
ToggledKeepOthers(a, view) ==
    LET s == [a EXCEPT !.active = @ \cup {view}, !.currentView = view] IN
    IF s.currentThreadData # NoData THEN RenderThreadView(s, s.currentThreadData, view)
    ELSE s

Toggled(a, view) ==
    LET s == [a EXCEPT !.active = {view}, !.currentView = view] IN
    IF s.currentThreadData # NoData THEN RenderThreadView(s, s.currentThreadData, view)
    ELSE s

AppInit ==
    /\ ProcIdle
    /\ SolrIdle
    /\ TextIdle
    /\ LoadIdle
    /\ HistIdle
    /\ SameIndex
    /\ PipeIdle
    /\ \E marked \in SUBSET Views : app = NewApp(marked)
    /\ loads = [l \in LoadIds |-> "none"]
    /\ clicked = "none"

ClickToggle(view) ==
    /\ app' = Toggled(app, view)
    /\ clicked' = view
    /\ UNCHANGED loads

\* A click on an item of the thread list.
ClickThread(threadId) ==
    /\ threadId \in SeqRange(app.list)
    /\ \E ok \in BOOLEAN : app' = SelectThread(app, threadId, ok)
    /\ UNCHANGED <<loads, clicked>>

\* The retry button: hideError, resetApp.
ClickRetry ==
    /\ app' = ResetApp(HideError(app))
    /\ UNCHANGED <<loads, clicked>>

\* loadSampleData() up to its first await.
LoadSampleData(l) ==
    /\ loads[l] = "none"
    /\ app' = ShowProcessingStatus(app)
    /\ loads' = [loads EXCEPT ![l] = "fetch1"]
    /\ UNCHANGED clicked

\* processFile(file) up to its first await: a file that is neither .csv nor
\* .dat is refused at once.
ProcessFile(l) ==
    /\ loads[l] = "none"
    /\ \/ /\ app' = ShowError(app)
          /\ loads' = [loads EXCEPT ![l] = "done"]
       \/ /\ app' = ShowProcessingStatus(app)
          /\ loads' = [loads EXCEPT ![l] = "text"]
    /\ UNCHANGED clicked

\* fetch('./email_test_data_clean.csv') settles.
FirstResponse(l) ==
    /\ loads[l] = "fetch1"
    /\ \/ /\ loads' = [loads EXCEPT ![l] = "text"]
          /\ UNCHANGED app
       \/ /\ loads' = [loads EXCEPT ![l] = "fetch2"]
          /\ UNCHANGED app
       \/ /\ loads' = [loads EXCEPT ![l] = "done"]
          /\ app' = ShowError(app)
    /\ UNCHANGED clicked

\* fetch('./email_test_data.csv') settles.
SecondResponse(l) ==
    /\ loads[l] = "fetch2"
    /\ \/ /\ loads' = [loads EXCEPT ![l] = "text"]
          /\ UNCHANGED app
       \/ /\ loads' = [loads EXCEPT ![l] = "done"]
          /\ app' = ShowError(app)
    /\ UNCHANGED clicked

\* response.text() or file.text() settles; processEmailData runs to its end.
TextSettles(l) ==
    /\ loads[l] = "text"
    /\ loads' = [loads EXCEPT ![l] = "done"]
    /\ \/ app' = ShowError(app)
       \/ \E loaded, ok \in BOOLEAN, ids \in ThreadLists :
            \E skipped \in SUBSET SeqRange(ids) :
                app' = ProcessEmailData(app, loaded, ids, skipped, ok)
    /\ UNCHANGED clicked

Settle ==
    \E l \in LoadIds :
        (FirstResponse(l) \/ SecondResponse(l) \/ TextSettles(l))
            /\ UNCHANGED <<procVars, solrVars, textVars, loadVars, histVars, later, pipeVars>>

NextApp ==
    \/ \E v \in Views :
        ClickToggle(v) /\ UNCHANGED <<procVars, solrVars, textVars, loadVars, histVars, later, pipeVars>>
    \/ \E t \in ThreadIds :
        ClickThread(t) /\ UNCHANGED <<procVars, solrVars, textVars, loadVars, histVars, later, pipeVars>>
    \/ ClickRetry /\ UNCHANGED <<procVars, solrVars, textVars, loadVars, histVars, later, pipeVars>>
    \/ \E l \in LoadIds :
        LoadSampleData(l) /\ UNCHANGED <<procVars, solrVars, textVars, loadVars, histVars, later, pipeVars>>
    \/ \E l \in LoadIds :
        ProcessFile(l) /\ UNCHANGED <<procVars, solrVars, textVars, loadVars, histVars, later, pipeVars>>
    \/ Settle

SpecApp == AppInit /\ [][NextApp]_vars

\* A promise the browser made (a fetch, the text of a response or of a file)
\* settles, and its continuation runs.
SpecAppFair == SpecApp /\ WF_vars(Settle)

Pending == \E l \in LoadIds : loads[l] \in {"fetch1", "fetch2", "text"}
ResultsShown == ~app.upload

\* C26: whenever a load is pending, a moment comes when no load is pending
\* any more, the processing status is hidden, and the results or the error
\* message are shown.
C26_OverlayHidden ==
    Pending ~> (~Pending /\ ~app.processing /\ (ResultsShown \/ app.error))

\* Both loads have settled, one with an error after the other showed results.
C26_Witness ==
    /\ \A l \in LoadIds : loads[l] = "done"
    /\ ~app.processing
    /\ ResultsShown
    /\ app.error

\* ====================================================================
\* processSolrThreads: SolrEmailProcessor builds threads and writes
\* solr_email_data.csv, EmailThreadProcessor loads and groups that file.
\* An email as buildThreadsFromMessageIds collects it.
SolrEmail(id, mid, irt, d) ==
    [id |-> id, messageId |-> mid, inReplyTo |-> irt, references |-> <<>>, dateSent |-> d]

RootLists == {<<>>, <<"m1">>, <<"m1", "m2">>}   \* the unique Message-IDs found
RootFields == [inReplyTo : MsgIds \cup {Undefined}, dateSent : Dates]
ReplyFields == [messageId : MsgIds \cup {Undefined}, inReplyTo : MsgIds, dateSent : Dates]

\* this.emails after the two loops: the documents of the Message-IDs, then the
\* documents found to reply to one of them.
Collected(roots, rf, n, f) ==
    [i \in 1..(Len(roots) + n) |->
        IF i <= Len(roots)
        THEN SolrEmail(DocId[i], roots[i], rf[i].inReplyTo, rf[i].dateSent)
        ELSE SolrEmail(DocId[i], f[i - Len(roots)].messageId, f[i - Len(roots)].inReplyTo,
                       f[i - Len(roots)].dateSent)]

\* buildThreadStructure: the thread of one email of the for-loop.
ThreadIdFor(ths, map, e) ==
    LET hits == IF Truthy(e.inReplyTo) /\ e.inReplyTo \in DOMAIN map
                THEN {i \in DOMAIN ths :
                        \E j \in DOMAIN ths[i].emails :
                            ths[i].emails[j].messageId = map[e.inReplyTo].messageId}
                ELSE {}
    IN  IF hits # {} THEN ths[Min(hits)].id
        ELSE IF Truthy(e.messageId) THEN e.messageId ELSE e.id

RECURSIVE StructureLoop(_, _, _, _)
StructureLoop(ths, map, es, i) ==
    IF i > Len(es) THEN ths
    ELSE LET tid == ThreadIdFor(ths, map, es[i])
             at == {k \in DOMAIN ths : ths[k].id = tid}
         IN  StructureLoop(
                IF at = {} THEN Append(ths, [id |-> tid, emails |-> <<es[i]>>])
                ELSE [ths EXCEPT ![Min(at)].emails = Append(@, es[i])],
                map, es, i + 1)

BuildThreadStructure(es, map) ==
    LET ths == StructureLoop(<<>>, map, es, 1)
    IN  [i \in DOMAIN ths |-> [ths[i] EXCEPT !.emails = SortByDate(@)]]

\* exportToEmailThreadsFormat: the columns EmailThreadProcessor reads, and
\* ThreadId.  `${email.messageId}` of a missing id is the text undefined.
IsoText(d) == IF d = 1 THEN "1" ELSE "2"
TemplateText(v) == IF v = Undefined THEN <<"'undefined'">> ELSE <<v>>
OrEmptyText(v) == IF Truthy(v) THEN <<v>> ELSE <<>>

ExportRow(e, tid) ==
    [BegBates |-> e.id,
     ThreadId |-> tid,
     DateSent |-> IsoText(e.dateSent),
     column_history |->
        <<"MSG-ID:">> \o TemplateText(e.messageId)
            \o <<"|", "IN-REPLY-TO:">> \o OrEmptyText(e.inReplyTo)
            \o <<"|", "REFS:">> \o Join([i \in DOMAIN e.references |-> <<e.references[i]>>], " ")]

RECURSIVE ExportRows(_)
ExportRows(ths) ==
    IF ths = <<>> THEN <<>>
    ELSE [i \in DOMAIN ths[1].emails |-> ExportRow(ths[1].emails[i], ths[1].id)]
            \o ExportRows(Tail(ths))

PipeInit ==
    /\ SolrIdle
    /\ TextIdle
    /\ LoadIdle
    /\ HistIdle
    /\ SameIndex
    /\ AppIdle
    /\ ProcIdle
    /\ csv = <<>>
    /\ \E roots \in RootLists : \E rf \in [1..Len(roots) -> RootFields] :
        \E n \in 0..(IF roots = <<>> THEN 0 ELSE MaxBatch) : \E f \in [1..n -> ReplyFields] :
            /\ \A i \in 1..n : f[i].inReplyTo \in SeqRange(roots)
            /\ LET es == Collected(roots, rf, n, f)
               IN  solr = [used |-> TRUE, step |-> "collected", emails |-> es,
                           messageIdToEmail |-> MapAfter([k \in {} |-> <<>>], es),
                           threads |-> <<>>]

\* buildThreadsFromMessageIds ends with this.buildThreadStructure().
BuildThreadStructureCall ==
    /\ solr.step = "collected"
    /\ solr' = [solr EXCEPT !.step = "built",
                            !.threads = BuildThreadStructure(solr.emails, solr.messageIdToEmail)]
    /\ UNCHANGED <<csv, procVars>>

ExportToEmailThreadsFormat ==
    /\ solr.step = "built"
    /\ csv' = ExportRows(solr.threads)
    /\ solr' = [solr EXCEPT !.step = "exported"]
    /\ UNCHANGED procVars

\* emailProcessor.loadEmailsFromFile(result.csvPath), all its events
LoadExported ==
    /\ solr.step = "exported"
    /\ emails' = [i \in DOMAIN csv |-> EmailOfRow(csv[i])]
    /\ ret' = [op |-> "loadEmailsFromFile", arg |-> Undefined, val |-> Null]
    /\ solr' = [solr EXCEPT !.step = "loaded"]
    /\ UNCHANGED <<csv, file, threads>>

\* emailProcessor.groupByThreads()
GroupExported ==
    /\ solr.step = "loaded"
    /\ GroupByThreads
    /\ solr' = [solr EXCEPT !.step = "grouped"]
    /\ UNCHANGED csv

NextPipe ==
    \/ BuildThreadStructureCall
            /\ UNCHANGED <<solrVars, textVars, loadVars, histVars, later, appVars>>
    \/ ExportToEmailThreadsFormat
            /\ UNCHANGED <<solrVars, textVars, loadVars, histVars, later, appVars>>
    \/ LoadExported /\ UNCHANGED <<solrVars, textVars, loadVars, histVars, later, appVars>>
    \/ GroupExported /\ UNCHANGED <<solrVars, textVars, loadVars, histVars, later, appVars>>

SpecPipe == PipeInit /\ [][NextPipe]_vars

IdsOf(es) == {es[i].id : i \in DOMAIN es}

\* C29: when processSolrThreads has grouped the exported file, this.threads
\* of the EmailThreadProcessor has the thread ids of SolrEmailProcessor.threads
\* and, under each id, the same emails.
C29_SameGrouping ==
    solr.used /\ solr.step = "grouped" =>
        /\ DOMAIN threads = {solr.threads[i].id : i \in DOMAIN solr.threads}
        /\ \A i \in DOMAIN solr.threads :
                IdsOf(threads[solr.threads[i].id]) = IdsOf(solr.threads[i].emails)
====
